---- MODULE Spec2Model ----
(***************************************************************************)
(* Job scheduler (JobSchedulerService) and service registry with circuit   *)
(* breaker (ServiceRegistry) of the GRC platform.                          *)
(*                                                                         *)
(* Time: every stored timestamp is kept as an offset from the current      *)
(* instant, so `now` is always 0 and AdvanceTime moves every stored        *)
(* timestamp one unit closer (a due timestamp stays at 0).  One unit of    *)
(* model time is 10 seconds.  An absent timestamp is the empty tuple.      *)
(***************************************************************************)
EXTENDS Integers, Sequences, FiniteSets, TLC

\* ---------------------------------------------------------------- bounds
NumJobs == 2
MaxAttemptsBound == 3
MaxCycles == 2

MaxCount == 6
\* health-probe cycles of a run
MaxProbes == 3
\* Job Store calls that reject in a run
MaxFaults == 2
\* the largest maxRetries a caller passes
MaxRetriesBound == 2

\* ------------------------------------------------------------- constants
RetryBase == 1
RetryCap == 3
FailureThreshold == 5
SuccessThreshold == 2
CircuitTimeout == 3

Services == {"controls", "audit"}

Instances == {"A", "B"}
Queues == {"q1", "q2"}
Jobs == 1..NumJobs
Slots == 1..MaxCycles

None == <<>>
Some(t) == <<t>>
now == 0

VARIABLES
    jobs,        \* Job Store: job id -> row
    isPaused,    \* Job Store: queue -> isPaused
    concurrency, \* Job Store: queue -> concurrency
    deployed,    \* the scheduler instances that exist in this deployment
    injected,    \* the optional services the deployment provides
    defs,        \* Job Store: ScheduledJobDefinition id -> row
    timerOn,     \* instance -> processingIntervalId is set
    isRunning,   \* instance -> the re-entrancy flag
    cyc,         \* <<instance, slot>> -> an invocation of processJobs
    lastTick,    \* instance -> what the latest processJobs call did
    outcomes,    \* job -> outcomes of its handler executions, in order
    services,        \* ServiceRegistry.services: name -> ServiceInfo
    circuitBreakers, \* ServiceRegistry.circuitBreakers: name -> state
    circuitConfig,   \* ServiceRegistry.circuitConfig
    op,              \* the latest call made on the registry: the state it
                     \* found the circuit in and its result; seq flips at
                     \* every call
    streak,          \* name -> recordFailure calls since register(), or -1
                     \* once any other call was made for the name
    tally,           \* name -> recordSuccess calls made in a row, with no
                     \* recordFailure in between: half, since the circuit
                     \* entered half_open; cool, since its cooldown elapsed;
                     \* fails, recordFailure calls made in a row since the
                     \* last recordSuccess or register
    probe,           \* the health-check loop: the checkAllServices call in
                     \* progress and what it has recorded
    retry,           \* a call of retryAsync: its options, position and log
    faults           \* Job Store calls that have rejected so far

vars == <<jobs, isPaused, concurrency, deployed, injected, defs, timerOn, isRunning, cyc,
          lastTick, outcomes, services, circuitBreakers, circuitConfig, op, streak,
          tally, probe, retry, faults>>

jobVars == <<jobs, isPaused, concurrency, deployed, injected, defs, timerOn, isRunning, cyc,
             lastTick, outcomes>>

regVars == <<services, circuitBreakers, circuitConfig, op, streak, tally, probe>>

libVars == <<retry, faults>>

storeVars == <<jobs, isPaused, concurrency>>

Min(a, b) == IF a < b THEN a ELSE b

\* ------------------------------------------------------------ retryAsync
\* const { maxRetries, baseDelayMs, maxDelayMs = 30000 } = options
MaxDelayDefault == 30000

\* what a caller passes: maxRetries, baseDelayMs, maxDelayMs (or leaves out)
RetryCounts == 0..MaxRetriesBound
BaseDelays == {100, 20000}
MaxDelays == {None, Some(150)}

\* what fn resolves to
Values == {"v1", "v2"}

\* what fn rejects with: a string, an Error, a DomainError with its status
\* code, an object that has a message, a value that has none
Thrown ==
    {[type |-> "string", message |-> "down", statusCode |-> 0],
     [type |-> "Error", message |-> "timeout", statusCode |-> 0],
     [type |-> "DomainError", message |-> "not found", statusCode |-> 404],
     [type |-> "object", message |-> "503", statusCode |-> 0],
     [type |-> "other", message |-> "", statusCode |-> 0]}

\* getErrorMessage(error)
GetErrorMessage(error) ==
    IF error.type = "string" THEN error.message
    ELSE IF error.type \in {"Error", "DomainError"} THEN error.message
    ELSE IF error.type = "object" THEN error.message
    ELSE "An unknown error occurred"

\* getStatusCode(error)
GetStatusCode(error) ==
    IF error.type = "DomainError" THEN error.statusCode ELSE 500

\* new DomainError(message, code, statusCode, details)
DomainError(message, code, statusCode, attempts) ==
    [kind |-> "throw", message |-> message, code |-> code, statusCode |-> statusCode,
     attempts |-> attempts, value |-> ""]

NoRetry ==
    [pc |-> "idle", maxRetries |-> 0, baseDelayMs |-> 0, maxDelayMs |-> 0,
     attempt |-> 0, log |-> <<>>, waits |-> <<>>, lastError |-> "undefined",
     out |-> "none"]

\* the delay without the cap
RetryDelayUncapped(baseDelayMs, attempt, maxDelayMs) ==
    baseDelayMs * 2^attempt

\* Math.min(baseDelayMs * Math.pow(2, attempt), maxDelayMs)
RetryDelay(baseDelayMs, attempt, maxDelayMs) ==
    Min(baseDelayMs * 2^attempt, maxDelayMs)

\* retryAsync(fn, options, logger): the options are read, the loop is
\* entered with attempt = 0 and fn is called
RetryAsync(maxRetries, baseDelayMs, maxDelayMs) ==
    /\ retry.pc = "idle"
    /\ retry' = [NoRetry EXCEPT
                    !.pc = "call", !.maxRetries = maxRetries,
                    !.baseDelayMs = baseDelayMs,
                    !.maxDelayMs = IF maxDelayMs = None THEN MaxDelayDefault
                                   ELSE maxDelayMs[1]]
    /\ UNCHANGED <<jobVars, regVars, faults>>

\* return await fn(): fn resolves
FnReturns(v) ==
    /\ retry.pc = "call"
    /\ retry' = [retry EXCEPT
                    !.pc = "returned",
                    !.log = Append(@, [kind |-> "return", value |-> v]),
                    !.out = [kind |-> "return", message |-> "", code |-> "",
                             statusCode |-> 0, attempts |-> 0, value |-> v]]
    /\ UNCHANGED <<jobVars, regVars, faults>>

\* fn rejects: the catch block keeps the error and, if attempts are left,
\* starts the timer of the delay; after the last attempt the loop ends and
\* the DomainError is thrown
FnThrows(error) ==
    /\ retry.pc = "call"
    /\ retry' =
          IF retry.attempt < retry.maxRetries
          THEN [retry EXCEPT
                  !.pc = "wait",
                  !.log = Append(@, [kind |-> "throw", value |-> error]),
                  !.lastError = error,
                  !.waits = Append(@, RetryDelay(retry.baseDelayMs, retry.attempt,
                                                 retry.maxDelayMs))]
          ELSE [retry EXCEPT
                  !.pc = "thrown",
                  !.log = Append(@, [kind |-> "throw", value |-> error]),
                  !.lastError = error,
                  !.attempt = @ + 1,
                  !.out = DomainError(GetErrorMessage(error), "RETRY_EXHAUSTED",
                                      GetStatusCode(error), retry.maxRetries + 1)]
    /\ UNCHANGED <<jobVars, regVars, faults>>

\* the setTimeout of the delay fires: attempt++ and the next turn of the loop
DelayElapsed ==
    /\ retry.pc = "wait"
    /\ retry' = [retry EXCEPT !.pc = "call", !.attempt = @ + 1]
    /\ UNCHANGED <<jobVars, regVars, faults>>

\* ------------------------------------------------------------- Job Store
\* a handler's return value: which execution of the job produced it, and
\* what it says (done: the work was done; mock: isMockMode with a reason;
\* skipped: unknown job type)
Result(run, kind) == [run |-> run, kind |-> kind]
NoResult == Result(0, "none")

\* the job types of executeJob's switch that the model follows, and a name
\* that is none of its cases
Handlers == {"send-email", "deliver-webhook", "cleanup-old-audit-logs"}
JobNames == Handlers \cup {"no-such-job"}

\* the optional services behind them
Capabilities == {"EmailService", "WebhooksService"}
Capability(name) ==
    CASE name = "send-email" -> "EmailService"
      [] name = "deliver-webhook" -> "WebhooksService"
      [] OTHER -> "none"

NoJob ==
    [status |-> "none", name |-> "cleanup-old-audit-logs", queueId |-> "q1",
     priority |-> 0, createdAt |-> 0, attempts |-> 0, maxAttempts |-> 1,
     delayUntil |-> None, lastError |-> "null", result |-> NoResult]

\* createdAt is kept as the job's rank among the rows of the store: the
\* oldest row has 1
Existing == {j \in Jobs : jobs[j].status # "none"}

\* an ordering that takes the newest job of a priority first
BeforeNewestFirst(a, b) ==
    \/ jobs[a].priority > jobs[b].priority
    \/ jobs[a].priority = jobs[b].priority /\ jobs[a].createdAt > jobs[b].createdAt

\* an ordering by creation time alone
BeforeCreatedOnly(a, b) ==
    jobs[a].createdAt < jobs[b].createdAt

\* orderBy: [{ priority: 'desc' }, { createdAt: 'asc' }]
Before(a, b) ==
    \/ jobs[a].priority > jobs[b].priority
    \/ jobs[a].priority = jobs[b].priority /\ jobs[a].createdAt < jobs[b].createdAt

RECURSIVE OrderBy(_)
OrderBy(S) ==
    IF S = {} THEN <<>>
    ELSE LET m == CHOOSE x \in S : \A y \in S \ {x} : Before(x, y)
         IN  <<m>> \o OrderBy(S \ {m})

Take(s, n) == SubSeq(s, 1, Min(n, Len(s)))

\* the findMany of processQueueJobs without its status filter on failed jobs
FindPendingOrFailed(q) ==
    Take(OrderBy({j \in Jobs : jobs[j].queueId = q
                                /\ jobs[j].status \in {"pending", "failed"}}),
         concurrency[q])

\* prisma.job.findMany({ where: { queueId, status: 'pending' }, orderBy, take })
FindPending(q) ==
    Take(OrderBy({j \in Jobs : jobs[j].queueId = q /\ jobs[j].status = "pending"}),
         concurrency[q])

\* prisma.jobQueue.findMany({ where: { isPaused: false } })
RECURSIVE QueueSeq(_)
QueueSeq(S) ==
    IF S = {} THEN <<>>
    ELSE LET m == CHOOSE x \in S : \A y \in S : x = "q1" \/ y # "q1"
         IN  <<m>> \o QueueSeq(S \ {m})

FindQueues == QueueSeq({q \in Queues : ~isPaused[q]})

\* Retry Policy: base * 2^attempts, capped
Backoff(attempts) == Min(RetryBase * (2 ^ attempts), RetryCap)

\* JobsService.markJobActive: the claim, a compare-and-set pending -> active
ClaimOk(j) == jobs[j].status = "pending"
MarkJobActive(j) == [jobs EXCEPT ![j].status = "active"]

\* JobsService.markJobCompleted
MarkJobCompleted(j, res) ==
    [jobs EXCEPT ![j].status = "completed",
                 ![j].attempts = @ + 1,
                 ![j].result = res]

\* JobsService.markJobFailed, applying the Retry Policy
MarkJobFailed(j) ==
    LET a == jobs[j].attempts + 1 IN
    IF a < jobs[j].maxAttempts
    THEN [jobs EXCEPT ![j].status = "delayed",
                      ![j].attempts = a,
                      ![j].delayUntil = Some(now + Backoff(a)),
                      ![j].lastError = "error"]
    ELSE [jobs EXCEPT ![j].status = "failed",
                      ![j].attempts = a,
                      ![j].lastError = "error"]

\* promoteDelayedJobs: updateMany where status = delayed and delayUntil <= now
Due(j) ==
    /\ jobs[j].status = "delayed"
    /\ jobs[j].delayUntil # None
    /\ jobs[j].delayUntil[1] <= now

\* promotion that also picks up failed jobs
PromoteDelayedOrFailed ==
    [j \in Jobs |->
        IF Due(j) \/ jobs[j].status = "failed"
        THEN [jobs[j] EXCEPT !.status = "pending", !.delayUntil = None]
        ELSE jobs[j]]

\* promotion that does not look at delayUntil
PromoteAllDelayed ==
    [j \in Jobs |->
        IF jobs[j].status = "delayed"
        THEN [jobs[j] EXCEPT !.status = "pending", !.delayUntil = None]
        ELSE jobs[j]]

PromoteDelayedJobs ==
    [j \in Jobs |->
        IF Due(j) THEN [jobs[j] EXCEPT !.status = "pending", !.delayUntil = None]
        ELSE jobs[j]]

\* ------------------------------------------- scheduled job definitions
Defs == {"d1", "d2"}

\* a ScheduledJobDefinition row; every is the period between two runs
NoDef ==
    [enabled |-> FALSE, name |-> "cleanup-old-audit-logs", queueId |-> "q1",
     every |-> 1, nextRunAt |-> None, lastRunAt |-> None]

DueDefs ==
    {d \in Defs : /\ defs[d].enabled
                  /\ defs[d].nextRunAt # None
                  /\ defs[d].nextRunAt[1] <= now}

RECURSIVE DefSeq(_)
DefSeq(S) ==
    IF S = {} THEN <<>>
    ELSE LET m == CHOOSE x \in S : \A y \in S : x = "d1" \/ y # "d1"
         IN  <<m>> \o DefSeq(S \ {m})

RECURSIVE SlotSeq(_)
SlotSeq(S) ==
    IF S = {} THEN <<>>
    ELSE LET m == CHOOSE x \in S : \A y \in S : x <= y
         IN  <<m>> \o SlotSeq(S \ {m})

\* the job a definition cycle creates for definition d, as the k-th of the cycle
NewJob(d, k) ==
    [NoJob EXCEPT !.status = "pending", !.name = defs[d].name,
                  !.queueId = defs[d].queueId,
                  !.createdAt = Cardinality(Existing) + k]

\* a definition cycle that stops after the first due definition
ProcessFirstDueOnly(ds) ==
    LET free == SlotSeq(Jobs \ Existing) IN
    /\ jobs' = [j \in Jobs |->
                   IF ds # <<>> /\ j = free[1] THEN NewJob(ds[1], 1) ELSE jobs[j]]
    /\ defs' = [d \in Defs |->
                   IF ds # <<>> /\ d = ds[1]
                   THEN [defs[d] EXCEPT !.nextRunAt = Some(now + defs[d].every),
                                        !.lastRunAt = Some(now)]
                   ELSE defs[d]]

\* JobsService.processScheduledJobs on the due definitions ds: a new job per
\* definition, nextRunAt recomputed, lastRunAt set
ProcessDue(ds) ==
    LET free == SlotSeq(Jobs \ Existing) IN
    /\ jobs' = [j \in Jobs |->
                   IF \E k \in 1..Len(ds) : free[k] = j
                   THEN LET k == CHOOSE k \in 1..Len(ds) : free[k] = j
                        IN  NewJob(ds[k], k)
                   ELSE jobs[j]]
    /\ defs' = [d \in Defs |->
                   IF \E k \in 1..Len(ds) : ds[k] = d
                   THEN [defs[d] EXCEPT !.nextRunAt = Some(now + defs[d].every),
                                        !.lastRunAt = Some(now)]
                   ELSE defs[d]]

\* ------------------------------------------------------------- scheduler
Idle ==
    [pc |-> "idle", qs |-> <<>>, batch |-> <<>>, won |-> FALSE, res |-> NoResult]

Busy(i) == {c \in Slots : cyc[<<i, c>>].pc # "idle"}
FreeSlot(i) == CHOOSE c \in Slots \ Busy(i) : \A d \in Slots \ Busy(i) : c <= d

\* processJobs without its re-entrancy guard
NoGuard(i) == FALSE

\* the re-entrancy guard of processJobs: if (this.isRunning) return
Guard(i) == isRunning[i]

\* a call of processJobs(), up to its first await
ProcessJobsCall(i) ==
    IF Guard(i)
    THEN /\ lastTick' = [lastTick EXCEPT ![i] = "skipped"]
         /\ UNCHANGED <<isRunning, cyc>>
    ELSE /\ Slots \ Busy(i) # {}
         /\ isRunning' = [isRunning EXCEPT ![i] = TRUE]
         /\ cyc' = [cyc EXCEPT ![<<i, FreeSlot(i)>>] = [Idle EXCEPT !.pc = "findQueues"]]
         /\ lastTick' = [lastTick EXCEPT ![i] = "ran"]

\* start(): set the interval timers and run the initial processing
Start(i) ==
    /\ i \in deployed
    /\ ~timerOn[i]
    /\ timerOn' = [timerOn EXCEPT ![i] = TRUE]
    /\ ProcessJobsCall(i)
    /\ UNCHANGED <<regVars, libVars, storeVars, deployed, injected, defs, outcomes>>

\* stop(): clear the interval timers
Stop(i) ==
    /\ i \in deployed
    /\ timerOn[i]
    /\ timerOn' = [timerOn EXCEPT ![i] = FALSE]
    /\ UNCHANGED <<regVars, libVars, storeVars, deployed, injected, defs, isRunning, cyc, lastTick, outcomes>>

\* the setInterval callback of the scheduled job runner (and the initial
\* run of start()): a definition cycle, jobsService.processScheduledJobs()
SchedulerTick(i) ==
    /\ i \in deployed
    /\ timerOn[i]
    /\ Cardinality(DueDefs) <= Cardinality(Jobs \ Existing)
    /\ ProcessDue(DefSeq(DueDefs))
    /\ UNCHANGED <<regVars, libVars, isPaused, concurrency, deployed, injected, timerOn,
                   isRunning, cyc, lastTick, outcomes>>

\* the setInterval callback of the processing loop
TimerTick(i) ==
    /\ i \in deployed
    /\ timerOn[i]
    /\ ProcessJobsCall(i)
    /\ UNCHANGED <<regVars, libVars, storeVars, deployed, injected, defs, timerOn, outcomes>>

\* where a cycle goes after the job at the head of its batch is done
AfterJob(s) ==
    IF Len(s.batch) > 1
    THEN [s EXCEPT !.pc = "markActive", !.batch = Tail(@), !.won = FALSE, !.res = NoResult]
    ELSE IF Len(s.qs) > 1
         THEN [s EXCEPT !.pc = "findJobs", !.qs = Tail(@), !.batch = <<>>,
                        !.won = FALSE, !.res = NoResult]
         ELSE [s EXCEPT !.pc = "promote", !.qs = <<>>, !.batch = <<>>,
                        !.won = FALSE, !.res = NoResult]

\* processJobs: const queues = await prisma.jobQueue.findMany(...)
StepFindQueues(i, c) ==
    LET s == cyc[<<i, c>>] IN
    /\ s.pc = "findQueues"
    /\ cyc' = [cyc EXCEPT ![<<i, c>>] =
                  IF FindQueues = <<>> THEN [s EXCEPT !.pc = "promote"]
                  ELSE [s EXCEPT !.pc = "findJobs", !.qs = FindQueues]]
    /\ UNCHANGED <<regVars, libVars, storeVars, deployed, injected, defs, timerOn, isRunning, lastTick, outcomes>>

\* processQueueJobs: const pendingJobs = await prisma.job.findMany(...)
StepFindJobs(i, c) ==
    LET s == cyc[<<i, c>>]
        b == FindPending(Head(s.qs)) IN
    /\ s.pc = "findJobs"
    /\ cyc' = [cyc EXCEPT ![<<i, c>>] =
                  IF b = <<>>
                  THEN IF Len(s.qs) > 1
                       THEN [s EXCEPT !.qs = Tail(@)]
                       ELSE [s EXCEPT !.pc = "promote", !.qs = <<>>]
                  ELSE [s EXCEPT !.pc = "markActive", !.batch = b]]
    /\ UNCHANGED <<regVars, libVars, storeVars, deployed, injected, defs, timerOn, isRunning, lastTick, outcomes>>

\* processQueueJobs: await this.jobsService.markJobActive(job.id), claim taken
StepMarkActive(i, c) ==
    LET s == cyc[<<i, c>>]
        j == Head(s.batch) IN
    /\ s.pc = "markActive"
    /\ ClaimOk(j)
    /\ jobs' = MarkJobActive(j)
    /\ cyc' = [cyc EXCEPT ![<<i, c>>] = [s EXCEPT !.pc = "execute", !.won = TRUE]]
    /\ UNCHANGED <<regVars, libVars, isPaused, concurrency, deployed, injected, defs, timerOn, isRunning, lastTick, outcomes>>

\* markJobActive finds the job no longer pending and reports nothing: the
\* loop body goes on to executeJob
StepClaimLostSilent(i, c) ==
    LET s == cyc[<<i, c>>]
        j == Head(s.batch) IN
    /\ s.pc = "markActive"
    /\ ~ClaimOk(j)
    /\ cyc' = [cyc EXCEPT ![<<i, c>>].pc = "execute"]
    /\ UNCHANGED <<regVars, libVars, storeVars, deployed, injected, defs, timerOn, isRunning, lastTick, outcomes>>

\* markJobActive finds the job no longer pending and throws: the catch block
\* of the loop body calls markJobFailed
StepClaimLostThrow(i, c) ==
    LET s == cyc[<<i, c>>]
        j == Head(s.batch) IN
    /\ s.pc = "markActive"
    /\ ~ClaimOk(j)
    /\ cyc' = [cyc EXCEPT ![<<i, c>>].pc = "markFailed"]
    /\ UNCHANGED <<regVars, libVars, storeVars, deployed, injected, defs, timerOn, isRunning, lastTick, outcomes>>

\* executeJob whose default case throws
ExecuteJobUnknownThrows(name) ==
    IF name \notin Handlers THEN {"throw"}
    ELSE IF Capability(name) # "none" /\ Capability(name) \notin injected
         THEN {"mock"}
         ELSE {"done", "throw"}

\* executeJob whose handlers call the optional service without the null test
ExecuteJobNoMock(name) ==
    IF name \notin Handlers THEN {"skipped"}
    ELSE IF Capability(name) # "none" /\ Capability(name) \notin injected
         THEN {"throw"}
         ELSE {"done", "throw"}

\* executeJob(job): what the handler for the job's name can do
ExecuteJob(name) ==
    IF name \notin Handlers THEN {"skipped"}
    ELSE IF Capability(name) # "none" /\ Capability(name) \notin injected
         THEN {"mock"}
         ELSE {"done", "throw"}

\* processQueueJobs: const result = await this.executeJob(job), handler returns
StepExecuteOk(i, c) ==
    LET s == cyc[<<i, c>>]
        j == Head(s.batch) IN
    /\ s.pc = "execute"
    /\ \E kind \in ExecuteJob(jobs[j].name) \ {"throw"} :
          cyc' = [cyc EXCEPT ![<<i, c>>] =
                     [s EXCEPT !.pc = "markCompleted",
                               !.res = Result(Len(outcomes[j]) + 1, kind)]]
    /\ outcomes' = [outcomes EXCEPT ![j] = Append(@, "S")]
    /\ UNCHANGED <<regVars, libVars, storeVars, deployed, injected, defs, timerOn, isRunning, lastTick>>

\* processQueueJobs: executeJob throws, control goes to the catch block
StepExecuteThrow(i, c) ==
    LET s == cyc[<<i, c>>]
        j == Head(s.batch) IN
    /\ s.pc = "execute"
    /\ "throw" \in ExecuteJob(jobs[j].name)
    /\ outcomes' = [outcomes EXCEPT ![j] = Append(@, "F")]
    /\ cyc' = [cyc EXCEPT ![<<i, c>>].pc = "markFailed"]
    /\ UNCHANGED <<regVars, libVars, storeVars, deployed, injected, defs, timerOn, isRunning, lastTick>>

\* markJobCompleted called without the handler's result
StepMarkCompletedNoResult(i, c) ==
    LET s == cyc[<<i, c>>]
        j == Head(s.batch) IN
    /\ s.pc = "markCompleted"
    /\ jobs' = MarkJobCompleted(j, NoResult)
    /\ cyc' = [cyc EXCEPT ![<<i, c>>] = AfterJob(s)]
    /\ UNCHANGED <<regVars, libVars, isPaused, concurrency, deployed, injected, defs, timerOn, isRunning, lastTick, outcomes>>

\* processQueueJobs: await this.jobsService.markJobCompleted(job.id, result)
StepMarkCompleted(i, c) ==
    LET s == cyc[<<i, c>>]
        j == Head(s.batch) IN
    /\ s.pc = "markCompleted"
    /\ jobs' = MarkJobCompleted(j, s.res)
    /\ cyc' = [cyc EXCEPT ![<<i, c>>] = AfterJob(s)]
    /\ UNCHANGED <<regVars, libVars, isPaused, concurrency, deployed, injected, defs, timerOn, isRunning, lastTick, outcomes>>

\* a catch block that records the failure and rethrows: processJobs logs the
\* error and its finally block ends the cycle
StepMarkFailedRethrow(i, c) ==
    LET s == cyc[<<i, c>>]
        j == Head(s.batch) IN
    /\ s.pc = "markFailed"
    /\ jobs' = MarkJobFailed(j)
    /\ cyc' = [cyc EXCEPT ![<<i, c>>] = Idle]
    /\ isRunning' = [isRunning EXCEPT ![i] = FALSE]
    /\ UNCHANGED <<regVars, libVars, isPaused, concurrency, deployed, injected, defs, timerOn, lastTick, outcomes>>

\* processQueueJobs, catch: await this.jobsService.markJobFailed(job.id, ...)
StepMarkFailed(i, c) ==
    LET s == cyc[<<i, c>>]
        j == Head(s.batch) IN
    /\ s.pc = "markFailed"
    /\ jobs' = MarkJobFailed(j)
    /\ cyc' = [cyc EXCEPT ![<<i, c>>] = AfterJob(s)]
    /\ UNCHANGED <<regVars, libVars, isPaused, concurrency, deployed, injected, defs, timerOn, isRunning, lastTick, outcomes>>

\* processJobs: await this.promoteDelayedJobs(); finally isRunning = false
StepPromote(i, c) ==
    LET s == cyc[<<i, c>>] IN
    /\ s.pc = "promote"
    /\ jobs' = PromoteDelayedJobs
    /\ cyc' = [cyc EXCEPT ![<<i, c>>] = Idle]
    /\ isRunning' = [isRunning EXCEPT ![i] = FALSE]
    /\ UNCHANGED <<regVars, libVars, isPaused, concurrency, deployed, injected, defs, timerOn, lastTick, outcomes>>

\* ------------------------------------------------------ Job Store errors
\* a store call inside the try block of the loop body (markJobActive,
\* markJobCompleted) rejects: control goes to the catch block of the job
StepStoreErrorCaught(i, c) ==
    LET s == cyc[<<i, c>>] IN
    /\ s.pc \in {"markActive", "markCompleted"}
    /\ faults < MaxFaults
    /\ faults' = faults + 1
    /\ cyc' = [cyc EXCEPT ![<<i, c>>].pc = "markFailed"]
    /\ UNCHANGED <<regVars, retry, storeVars, deployed, injected, defs, timerOn, isRunning, lastTick,
                   outcomes>>

\* a processJobs whose error path leaves the flag set
StepStoreErrorNoFinally(i, c) ==
    LET s == cyc[<<i, c>>] IN
    /\ s.pc \in {"findQueues", "findJobs", "markFailed", "promote"}
    /\ faults < MaxFaults
    /\ faults' = faults + 1
    /\ cyc' = [cyc EXCEPT ![<<i, c>>] = Idle]
    /\ lastTick' = [lastTick EXCEPT ![i] = "error"]
    /\ UNCHANGED <<regVars, retry, storeVars, deployed, injected, defs, timerOn, isRunning, outcomes>>

\* any other store call of the cycle (either findMany, markJobFailed in the
\* catch block, the updateMany of promotion) rejects: processJobs catches
\* the error, logs it, and its finally block clears the flag
StepStoreErrorEndsCycle(i, c) ==
    LET s == cyc[<<i, c>>] IN
    /\ s.pc \in {"findQueues", "findJobs", "markFailed", "promote"}
    /\ faults < MaxFaults
    /\ faults' = faults + 1
    /\ cyc' = [cyc EXCEPT ![<<i, c>>] = Idle]
    /\ isRunning' = [isRunning EXCEPT ![i] = FALSE]
    /\ lastTick' = [lastTick EXCEPT ![i] = "error"]
    /\ UNCHANGED <<regVars, retry, storeVars, deployed, injected, defs, timerOn, outcomes>>

\* ------------------------------------------------------------- producers
\* enqueue(queueName, jobName, payload, { priority, maxAttempts, delayMs })
Enqueue(j, q, n, p, m, d) ==
    /\ jobs[j].status = "none"
    /\ \A k \in Jobs : k < j => jobs[k].status # "none"
    /\ jobs' = [jobs EXCEPT ![j] =
                   [status |-> IF d > 0 THEN "delayed" ELSE "pending",
                    name |-> n, queueId |-> q, priority |-> p,
                    createdAt |-> Cardinality(Existing) + 1, attempts |-> 0,
                    maxAttempts |-> m,
                    delayUntil |-> IF d > 0 THEN Some(now + d) ELSE None,
                    lastError |-> "null", result |-> NoResult]]
    /\ UNCHANGED <<regVars, libVars, isPaused, concurrency, deployed, injected, defs, timerOn, isRunning, cyc,
                   lastTick, outcomes>>

\* the row of a finished job is purged and a new job is enqueued: the place
\* of the purged row is taken by the new one, which is the newest of the store
EnqueueOver(j, q, n, p) ==
    /\ jobs[j].status \in {"completed", "failed"}
    /\ jobs' = [k \in Jobs |->
                   IF k = j
                   THEN [NoJob EXCEPT !.status = "pending", !.name = n, !.queueId = q,
                                      !.priority = p,
                                      !.createdAt = Cardinality(Existing)]
                   ELSE IF jobs[k].createdAt > jobs[j].createdAt
                        THEN [jobs[k] EXCEPT !.createdAt = @ - 1]
                        ELSE jobs[k]]
    /\ outcomes' = [outcomes EXCEPT ![j] = <<>>]
    /\ UNCHANGED <<regVars, libVars, isPaused, concurrency, deployed, injected, defs, timerOn,
                   isRunning, cyc, lastTick>>

\* a producer cancels a job that has not been claimed
Cancel(j) ==
    /\ jobs[j].status \in {"pending", "delayed"}
    /\ jobs' = [jobs EXCEPT ![j].status = "cancelled"]
    /\ UNCHANGED <<regVars, libVars, isPaused, concurrency, deployed, injected, defs, timerOn, isRunning, cyc,
                   lastTick, outcomes>>

\* an operator pauses a queue: JobQueue.isPaused = true
Pause(q) ==
    /\ ~isPaused[q]
    /\ isPaused' = [isPaused EXCEPT ![q] = TRUE]
    /\ UNCHANGED <<regVars, libVars, jobs, concurrency, deployed, injected, defs, timerOn,
                   isRunning, cyc, lastTick, outcomes>>

\* an operator resumes a paused queue: JobQueue.isPaused = false
Resume(q) ==
    /\ isPaused[q]
    /\ isPaused' = [isPaused EXCEPT ![q] = FALSE]
    /\ UNCHANGED <<regVars, libVars, jobs, concurrency, deployed, injected, defs, timerOn,
                   isRunning, cyc, lastTick, outcomes>>

\* ------------------------------------------------------ service registry
\* constructor: circuitConfig from the environment, else the defaults
DefaultConfig ==
    [failureThreshold |-> FailureThreshold, successThreshold |-> SuccessThreshold,
     timeout |-> CircuitTimeout]

\* register(name, url, metadata)
NewService == [status |-> "unknown", consecutiveFailures |-> 0]
NewCircuit == [state |-> "closed", failures |-> 0, successes |-> 0, nextRetryTime |-> None]

\* no checkAllServices call in progress; recorded counts the outcomes the
\* latest call has recorded per dependency, cycles the calls made so far
NoProbe ==
    [running |-> FALSE, todo |-> <<>>, recorded |-> [n \in Services |-> 0],
     cycles |-> 0]

NoTally == [half |-> 0, cool |-> 0, fails |-> 0]

\* the record of a call: what was called for which name, the state its
\* circuit was in, what the call returned
Call(name, n, ret) ==
    [name |-> name, svc |-> n, was |-> circuitBreakers[n].state, ret |-> ret,
     seq |-> 1 - op.seq]

Register(n) ==
    /\ services' = [services EXCEPT ![n] = NewService]
    /\ circuitBreakers' = [circuitBreakers EXCEPT ![n] = NewCircuit]
    /\ op' = Call("register", n, "void")
    /\ streak' = [streak EXCEPT ![n] = 0]
    /\ tally' = [tally EXCEPT ![n] = NoTally]
    /\ UNCHANGED <<jobVars, libVars, circuitConfig>>

\* the cooldown test with > for >=
RetryDueStrict(circuit) ==
    /\ circuit.nextRetryTime # None
    /\ now > circuit.nextRetryTime[1]

\* getServiceUrl: circuit.nextRetryTime && new Date() >= circuit.nextRetryTime
RetryDue(circuit) ==
    /\ circuit.nextRetryTime # None
    /\ now >= circuit.nextRetryTime[1]

\* getServiceUrl that fast-fails on every open circuit
GetServiceUrlNoRetry(n) ==
    LET circuit == circuitBreakers[n] IN
    /\ op' = Call("getServiceUrl", n, IF circuit.state = "open" THEN "null" ELSE "url")
    /\ streak' = [streak EXCEPT ![n] = -1]
    /\ UNCHANGED <<jobVars, libVars, services, circuitBreakers, circuitConfig, tally>>

\* getServiceUrl(name)
GetServiceUrl(n) ==
    LET circuit == circuitBreakers[n] IN
    /\ IF circuit.state = "open"
       THEN IF RetryDue(circuit)
            THEN /\ circuitBreakers' = [circuitBreakers EXCEPT ![n].state = "half_open"]
                 /\ op' = Call("getServiceUrl", n, "url")
                 /\ tally' = [tally EXCEPT ![n].half = 0]
            ELSE /\ op' = Call("getServiceUrl", n, "null")
                 /\ UNCHANGED <<circuitBreakers, tally>>
       ELSE /\ op' = Call("getServiceUrl", n, "url")
            /\ UNCHANGED <<circuitBreakers, tally>>
    /\ streak' = [streak EXCEPT ![n] = -1]
    /\ UNCHANGED <<jobVars, libVars, services, circuitConfig>>

\* tripCircuit(name, circuit)
TripCircuit(circuit) ==
    [circuit EXCEPT !.state = "open",
                    !.nextRetryTime = Some(now + circuitConfig.timeout)]

\* recordSuccess that leaves the failure counter as it is
SuccessCircuitKeepsFailures(circuit) ==
    LET c1 == [circuit EXCEPT !.successes = @ + 1] IN
    IF c1.state = "half_open" /\ c1.successes >= circuitConfig.successThreshold
    THEN [c1 EXCEPT !.state = "closed", !.successes = 0]
    ELSE c1

\* recordSuccess, the circuit part
SuccessCircuit(circuit) ==
    LET c1 == [circuit EXCEPT !.failures = 0, !.successes = @ + 1] IN
    IF c1.state = "half_open" /\ c1.successes >= circuitConfig.successThreshold
    THEN [c1 EXCEPT !.state = "closed", !.successes = 0]
    ELSE c1

\* recordSuccess(name)
RecordSuccess(n) ==
    /\ circuitBreakers[n].successes < MaxCount
    /\ circuitBreakers' = [circuitBreakers EXCEPT ![n] = SuccessCircuit(@)]
    /\ services' = [services EXCEPT ![n] = [status |-> "healthy", consecutiveFailures |-> 0]]
    /\ op' = Call("recordSuccess", n, "void")
    /\ streak' = [streak EXCEPT ![n] = -1]
    /\ tally' = [tally EXCEPT
                   ![n].half = IF circuitBreakers[n].state = "half_open"
                               THEN Min(@ + 1, circuitConfig.successThreshold) ELSE 0,
                   ![n].cool = IF RetryDue(circuitBreakers[n])
                               THEN Min(@ + 1, circuitConfig.successThreshold) ELSE 0,
                   ![n].fails = 0]
    /\ UNCHANGED <<jobVars, libVars, circuitConfig>>

\* recordFailure with > for >= in the threshold test
FailureCircuitStrict(circuit) ==
    LET c1 == [circuit EXCEPT !.failures = @ + 1, !.successes = 0] IN
    IF c1.state = "half_open" THEN TripCircuit(c1)
    ELSE IF c1.state = "closed" /\ c1.failures > circuitConfig.failureThreshold
         THEN TripCircuit(c1)
    ELSE c1

\* recordFailure that trips a half_open circuit only at the threshold
FailureCircuitThresholdOnly(circuit) ==
    LET c1 == [circuit EXCEPT !.failures = @ + 1, !.successes = 0] IN
    IF c1.state \in {"closed", "half_open"}
       /\ c1.failures >= circuitConfig.failureThreshold
    THEN TripCircuit(c1)
    ELSE c1

\* recordFailure, the circuit part
FailureCircuit(circuit) ==
    LET c1 == [circuit EXCEPT !.failures = @ + 1, !.successes = 0] IN
    IF c1.state = "half_open" THEN TripCircuit(c1)
    ELSE IF c1.state = "closed" /\ c1.failures >= circuitConfig.failureThreshold
         THEN TripCircuit(c1)
    ELSE c1

\* recordFailure(name)
RecordFailure(n) ==
    /\ circuitBreakers[n].failures < MaxCount
    /\ services[n].consecutiveFailures < MaxCount
    /\ circuitBreakers' = [circuitBreakers EXCEPT ![n] = FailureCircuit(@)]
    /\ services' = [services EXCEPT ![n] =
                       [status |-> IF FailureCircuit(circuitBreakers[n]).state = "open"
                                   THEN "unhealthy" ELSE "degraded",
                        consecutiveFailures |-> @.consecutiveFailures + 1]]
    /\ op' = Call("recordFailure", n, "void")
    /\ streak' = [streak EXCEPT ![n] = IF @ >= 0 THEN @ + 1 ELSE @]
    /\ tally' = [tally EXCEPT ![n] = [NoTally EXCEPT !.fails = tally[n].fails + 1]]
    /\ UNCHANGED <<jobVars, libVars, circuitConfig>>

\* checkAllServices, one dependency: the probe's outcome goes to recordSuccess
\* (response.ok) or to recordFailure (any other response, timeout, error)
CheckService(n) ==
    \/ RecordSuccess(n)
    \/ RecordFailure(n)

\* getService(name): the ServiceInfo of the services map
GetService(n) == services[n]

\* getHealthSummary(): the services counted by status
GetHealthSummary ==
    [total |-> Cardinality(Services),
     healthy |-> Cardinality({n \in Services : services[n].status = "healthy"}),
     degraded |-> Cardinality({n \in Services : services[n].status = "degraded"}),
     unhealthy |-> Cardinality({n \in Services : services[n].status = "unhealthy"})]

\* the registered dependencies in the order of the services map
ServiceSeq == <<"controls", "audit">>

\* what the probe of one dependency can come to: a 2xx response, another
\* response, a network error, no answer within AbortSignal.timeout(5000)
ProbeOutcomes == {"ok", "notOk", "error", "timeout"}

\* the setInterval callback of startHealthChecks (and its initial check):
\* checkAllServices reads the entries of the services map
CheckAllServices ==
    /\ ~probe.running
    /\ probe.cycles < MaxProbes
    /\ probe' = [running |-> TRUE, todo |-> ServiceSeq,
                 recorded |-> [n \in Services |-> 0], cycles |-> probe.cycles + 1]
    /\ UNCHANGED <<jobVars, libVars, services, circuitBreakers, circuitConfig, op, streak,
                   tally>>

\* what is left of the loop after the entry at the head of todo
AfterProbe(n) ==
    [probe EXCEPT !.todo = Tail(@), !.recorded[n] = @ + 1, !.running = Len(probe.todo) > 1]

\* the loop body without its try/catch: a probe that throws ends the call
StepCheckNoCatch(r) ==
    LET n == Head(probe.todo) IN
    /\ probe.running
    /\ \/ r = "ok" /\ RecordSuccess(n) /\ probe' = AfterProbe(n)
       \/ r = "notOk" /\ RecordFailure(n) /\ probe' = AfterProbe(n)
       \/ /\ r \in {"error", "timeout"}
          /\ probe' = [probe EXCEPT !.todo = <<>>, !.running = FALSE]
          /\ UNCHANGED <<jobVars, libVars, services, circuitBreakers, circuitConfig, op,
                         streak, tally>>

\* checkAllServices, one turn of its for loop: await fetch(url/health), then
\* recordSuccess if response.ok, recordFailure otherwise and in the catch
StepCheck(r) ==
    LET n == Head(probe.todo) IN
    /\ probe.running
    /\ \/ r = "ok" /\ RecordSuccess(n)
       \/ r # "ok" /\ RecordFailure(n)
    /\ probe' = AfterProbe(n)

\* ------------------------------------------------------------------ time
Closer(t) == IF t = None \/ t[1] = 0 THEN t ELSE Some(t[1] - 1)

AdvanceTime ==
    /\ \/ \E j \in Jobs : jobs[j].delayUntil # None /\ jobs[j].delayUntil[1] > 0
       \/ \E n \in Services : circuitBreakers[n].nextRetryTime # None
                                /\ circuitBreakers[n].nextRetryTime[1] > 0
       \/ \E d \in Defs : defs[d].nextRunAt # None /\ defs[d].nextRunAt[1] > 0
    /\ jobs' = [j \in Jobs |-> [jobs[j] EXCEPT !.delayUntil = Closer(@)]]
    /\ circuitBreakers' = [n \in Services |->
                              [circuitBreakers[n] EXCEPT !.nextRetryTime = Closer(@)]]
    /\ defs' = [d \in Defs |-> [defs[d] EXCEPT !.nextRunAt = Closer(@)]]
    /\ UNCHANGED <<services, circuitConfig, op, streak, tally, probe, libVars, isPaused,
                   concurrency, deployed, injected, timerOn, isRunning, cyc, lastTick,
                   outcomes>>

\* --------------------------------------------------------- specification
InitScheduler ==
    /\ timerOn = [i \in Instances |-> FALSE]
    /\ isRunning = [i \in Instances |-> FALSE]
    /\ cyc = [x \in Instances \X Slots |-> Idle]
    /\ lastTick = [i \in Instances |-> "none"]
    /\ outcomes = [j \in Jobs |-> <<>>]
    /\ retry = NoRetry
    /\ faults = 0

\* onModuleInit: registerCoreServices
InitRegistry ==
    /\ services = [n \in Services |-> NewService]
    /\ circuitBreakers = [n \in Services |-> NewCircuit]
    /\ op = [name |-> "none", svc |-> "none", was |-> "none", ret |-> "void", seq |-> 0]
    /\ streak = [n \in Services |-> 0]
    /\ tally = [n \in Services |-> NoTally]
    /\ probe = NoProbe

Init ==
    /\ InitRegistry
    /\ circuitConfig = DefaultConfig
    /\ jobs = [j \in Jobs |-> NoJob]
    /\ isPaused = [q \in Queues |-> FALSE]
    /\ concurrency = [q \in Queues |-> IF q = "q1" THEN 2 ELSE 1]
    /\ deployed = {"A"}
    /\ injected = Capabilities
    /\ defs = [d \in Defs |-> NoDef]
    /\ InitScheduler

SchedulerNext ==
    \/ \E i \in Instances : Start(i)
    \/ \E i \in Instances : Stop(i)
    \/ \E i \in Instances : TimerTick(i)
    \/ \E i \in Instances, c \in Slots : StepFindQueues(i, c)
    \/ \E i \in Instances, c \in Slots : StepFindJobs(i, c)
    \/ \E i \in Instances, c \in Slots : StepMarkActive(i, c)
    \/ \E i \in Instances, c \in Slots : StepExecuteOk(i, c)
    \/ \E i \in Instances, c \in Slots : StepExecuteThrow(i, c)
    \/ \E i \in Instances, c \in Slots : StepMarkCompleted(i, c)
    \/ \E i \in Instances, c \in Slots : StepMarkFailed(i, c)
    \/ \E i \in Instances, c \in Slots : StepPromote(i, c)
    \/ \E i \in Instances, c \in Slots : StepClaimLostSilent(i, c)
    \/ \E i \in Instances, c \in Slots : StepClaimLostThrow(i, c)
    \/ AdvanceTime

Next ==
    \/ SchedulerNext
    \/ \E j \in Jobs, q \in Queues, m \in 1..MaxAttemptsBound, d \in 0..1 :
          Enqueue(j, q, "cleanup-old-audit-logs", 0, m, d)
    \/ \E j \in Jobs : Cancel(j)

Spec == Init /\ [][Next]_vars

\* one scheduler instance that is started and never stopped: its timer keeps
\* firing, every awaited store call and handler returns, and time passes
CycleStep ==
    \E i \in Instances, c \in Slots :
        \/ StepFindQueues(i, c) \/ StepFindJobs(i, c) \/ StepMarkActive(i, c)
        \/ StepClaimLostSilent(i, c) \/ StepClaimLostThrow(i, c)
        \/ StepExecuteOk(i, c) \/ StepExecuteThrow(i, c)
        \/ StepMarkCompleted(i, c) \/ StepMarkFailed(i, c) \/ StepPromote(i, c)

NextLive ==
    \/ \E i \in Instances : Start(i)
    \/ \E i \in Instances : TimerTick(i)
    \/ \E i \in Instances, c \in Slots : StepFindQueues(i, c)
    \/ \E i \in Instances, c \in Slots : StepFindJobs(i, c)
    \/ \E i \in Instances, c \in Slots : StepMarkActive(i, c)
    \/ \E i \in Instances, c \in Slots : StepExecuteOk(i, c)
    \/ \E i \in Instances, c \in Slots : StepExecuteThrow(i, c)
    \/ \E i \in Instances, c \in Slots : StepMarkCompleted(i, c)
    \/ \E i \in Instances, c \in Slots : StepMarkFailed(i, c)
    \/ \E i \in Instances, c \in Slots : StepPromote(i, c)
    \/ \E i \in Instances, c \in Slots : StepClaimLostSilent(i, c)
    \/ \E i \in Instances, c \in Slots : StepClaimLostThrow(i, c)
    \/ AdvanceTime
    \/ \E j \in Jobs, q \in Queues, m \in 1..MaxAttemptsBound, d \in 0..1 :
          Enqueue(j, q, "cleanup-old-audit-logs", 0, m, d)
    \/ \E j \in Jobs : Cancel(j)

Fairness ==
    /\ WF_vars(\E i \in Instances : Start(i))
    /\ WF_vars(\E i \in Instances : TimerTick(i))
    /\ WF_vars(CycleStep)
    /\ WF_vars(AdvanceTime)

SpecLive == Init /\ [][NextLive]_vars /\ Fairness

\* two scheduler instances against one Job Store that already holds the jobs,
\* each job to be tried once
InitMulti ==
    /\ \E qf \in [Jobs -> Queues] :
          jobs = [j \in Jobs |-> [NoJob EXCEPT !.status = "pending", !.createdAt = j,
                                               !.queueId = qf[j], !.maxAttempts = 1]]
    /\ isPaused = [q \in Queues |-> FALSE]
    /\ concurrency = [q \in Queues |-> IF q = "q1" THEN 2 ELSE 1]
    /\ deployed = {"A", "B"}
    /\ injected = Capabilities
    /\ defs = [d \in Defs |-> NoDef]
    /\ InitScheduler
    /\ InitRegistry
    /\ circuitConfig = DefaultConfig

NextMulti ==
    \/ \E i \in Instances : Start(i)
    \/ \E i \in Instances : TimerTick(i)
    \/ \E i \in Instances, c \in Slots : StepFindQueues(i, c)
    \/ \E i \in Instances, c \in Slots : StepFindJobs(i, c)
    \/ \E i \in Instances, c \in Slots : StepMarkActive(i, c)
    \/ \E i \in Instances, c \in Slots : StepExecuteOk(i, c)
    \/ \E i \in Instances, c \in Slots : StepExecuteThrow(i, c)
    \/ \E i \in Instances, c \in Slots : StepMarkCompleted(i, c)
    \/ \E i \in Instances, c \in Slots : StepMarkFailed(i, c)
    \/ \E i \in Instances, c \in Slots : StepPromote(i, c)
    \/ \E i \in Instances, c \in Slots : StepClaimLostSilent(i, c)
    \/ \E i \in Instances, c \in Slots : StepClaimLostThrow(i, c)

SpecMulti == InitMulti /\ [][NextMulti]_vars

\* failureThreshold as the environment sets it: the default or 3
Thresholds == {3, FailureThreshold}

\* the registry on its own: no scheduler is deployed
InitReg ==
    /\ InitRegistry
    /\ circuitConfig \in {[DefaultConfig EXCEPT !.failureThreshold = t] : t \in Thresholds}
    /\ jobs = [j \in Jobs |-> NoJob]
    /\ isPaused = [q \in Queues |-> FALSE]
    /\ concurrency = [q \in Queues |-> IF q = "q1" THEN 2 ELSE 1]
    /\ deployed = {}
    /\ injected = Capabilities
    /\ defs = [d \in Defs |-> NoDef]
    /\ InitScheduler

NextReg ==
    \/ \E n \in Services : Register(n) /\ UNCHANGED probe
    \/ \E n \in Services : GetServiceUrl(n) /\ UNCHANGED probe
    \/ \E n \in Services : RecordSuccess(n) /\ UNCHANGED probe
    \/ \E n \in Services : RecordFailure(n) /\ UNCHANGED probe
    \/ AdvanceTime

SpecReg == InitReg /\ [][NextReg]_vars

\* the registry with nothing but its health-check loop: no caller asks for
\* a URL or reports a call outcome
NextProbe ==
    \/ \E n \in Services : CheckService(n) /\ UNCHANGED probe
    \/ AdvanceTime

SpecProbe == InitReg /\ [][NextProbe]_vars

\* the registry with its periodic health check, while callers ask for URLs
NextCheck ==
    \/ CheckAllServices
    \/ \E r \in ProbeOutcomes : StepCheck(r)
    \/ \E n \in Services : GetServiceUrl(n) /\ UNCHANGED probe
    \/ AdvanceTime

\* every fetch settles: with a response, an error or the 5 s abort
FairCheck == WF_vars(\E r \in ProbeOutcomes : StepCheck(r))

SpecCheck == InitReg /\ [][NextCheck]_vars /\ FairCheck

\* one call of retryAsync, with the options and the fn of any caller
NextRetry ==
    \/ \E m \in RetryCounts, b \in BaseDelays, d \in MaxDelays : RetryAsync(m, b, d)
    \/ \E v \in Values : FnReturns(v)
    \/ \E e \in Thrown : FnThrows(e)
    \/ DelayElapsed

SpecRetry == InitReg /\ [][NextRetry]_vars

\* one scheduler instance in a deployment that provides some of the
\* optional services, with jobs of every type waiting
InitTypes ==
    /\ \E nf \in [Jobs -> JobNames] :
          jobs = [j \in Jobs |-> [NoJob EXCEPT !.status = "pending", !.createdAt = j,
                                               !.name = nf[j], !.maxAttempts = 2]]
    /\ isPaused = [q \in Queues |-> FALSE]
    /\ concurrency = [q \in Queues |-> IF q = "q1" THEN 2 ELSE 1]
    /\ deployed = {"A"}
    /\ injected \in SUBSET Capabilities
    /\ defs = [d \in Defs |-> NoDef]
    /\ InitScheduler
    /\ InitRegistry
    /\ circuitConfig = DefaultConfig

NextTypes ==
    \/ \E i \in Instances : Start(i)
    \/ \E i \in Instances : TimerTick(i)
    \/ \E i \in Instances, c \in Slots : StepFindQueues(i, c)
    \/ \E i \in Instances, c \in Slots : StepFindJobs(i, c)
    \/ \E i \in Instances, c \in Slots : StepMarkActive(i, c)
    \/ \E i \in Instances, c \in Slots : StepExecuteOk(i, c)
    \/ \E i \in Instances, c \in Slots : StepExecuteThrow(i, c)
    \/ \E i \in Instances, c \in Slots : StepMarkCompleted(i, c)
    \/ \E i \in Instances, c \in Slots : StepMarkFailed(i, c)
    \/ \E i \in Instances, c \in Slots : StepPromote(i, c)
    \/ AdvanceTime

SpecTypes == InitTypes /\ [][NextTypes]_vars

\* one scheduler instance against a Job Store whose calls can fail
InitStore ==
    /\ \E qf \in [Jobs -> Queues] :
          jobs = [j \in Jobs |-> [NoJob EXCEPT !.status = "pending", !.createdAt = j,
                                               !.queueId = qf[j], !.maxAttempts = 2]]
    /\ isPaused = [q \in Queues |-> FALSE]
    /\ concurrency = [q \in Queues |-> IF q = "q1" THEN 2 ELSE 1]
    /\ deployed = {"A"}
    /\ injected = Capabilities
    /\ defs = [d \in Defs |-> NoDef]
    /\ InitScheduler
    /\ InitRegistry
    /\ circuitConfig = DefaultConfig

NextStore ==
    \/ \E i \in Instances : Start(i)
    \/ \E i \in Instances : TimerTick(i)
    \/ \E i \in Instances, c \in Slots : StepFindQueues(i, c)
    \/ \E i \in Instances, c \in Slots : StepFindJobs(i, c)
    \/ \E i \in Instances, c \in Slots : StepMarkActive(i, c)
    \/ \E i \in Instances, c \in Slots : StepExecuteOk(i, c)
    \/ \E i \in Instances, c \in Slots : StepExecuteThrow(i, c)
    \/ \E i \in Instances, c \in Slots : StepMarkCompleted(i, c)
    \/ \E i \in Instances, c \in Slots : StepMarkFailed(i, c)
    \/ \E i \in Instances, c \in Slots : StepPromote(i, c)
    \/ \E i \in Instances, c \in Slots : StepStoreErrorCaught(i, c)
    \/ \E i \in Instances, c \in Slots : StepStoreErrorEndsCycle(i, c)
    \/ AdvanceTime

SpecStore == InitStore /\ [][NextStore]_vars

\* the same with a timer that keeps firing while time passes: the store
\* calls that reject are few, all the others and the handlers return
SpecStoreLive == InitStore /\ [][NextStore]_vars /\ Fairness

\* one scheduler instance and two scheduled job definitions of different
\* job types, enabled or not, due now or later, with periods of their own
InitDefs ==
    /\ jobs = [j \in Jobs |-> NoJob]
    /\ isPaused = [q \in Queues |-> FALSE]
    /\ concurrency = [q \in Queues |-> IF q = "q1" THEN 2 ELSE 1]
    /\ deployed = {"A"}
    /\ injected = Capabilities
    /\ \E en \in [Defs -> BOOLEAN], at \in [Defs -> 0..1], ev \in [Defs -> 1..2] :
          defs = [d \in Defs |->
                     [NoDef EXCEPT !.enabled = en[d],
                                   !.name = IF d = "d1" THEN "send-email"
                                            ELSE "deliver-webhook",
                                   !.every = ev[d],
                                   !.nextRunAt = Some(now + at[d])]]
    /\ InitScheduler
    /\ InitRegistry
    /\ circuitConfig = DefaultConfig

NextDefs ==
    \/ \E i \in Instances : Start(i)
    \/ \E i \in Instances : SchedulerTick(i)
    \/ \E i \in Instances : TimerTick(i)
    \/ \E i \in Instances, c \in Slots : StepFindQueues(i, c)
    \/ \E i \in Instances, c \in Slots : StepFindJobs(i, c)
    \/ \E i \in Instances, c \in Slots : StepMarkActive(i, c)
    \/ \E i \in Instances, c \in Slots : StepExecuteOk(i, c)
    \/ \E i \in Instances, c \in Slots : StepExecuteThrow(i, c)
    \/ \E i \in Instances, c \in Slots : StepMarkCompleted(i, c)
    \/ \E i \in Instances, c \in Slots : StepMarkFailed(i, c)
    \/ \E i \in Instances, c \in Slots : StepPromote(i, c)
    \/ AdvanceTime

SpecDefs == InitDefs /\ [][NextDefs]_vars

\* one scheduler instance that is never stopped, jobs of two priorities
\* waiting, and producers that keep enqueueing
Priorities == {0, 1}

InitPrio ==
    /\ \E qf \in [Jobs -> Queues], pf \in [Jobs -> Priorities] :
          jobs = [j \in Jobs |-> [NoJob EXCEPT !.status = "pending", !.createdAt = j,
                                               !.queueId = qf[j], !.priority = pf[j]]]
    /\ isPaused = [q \in Queues |-> FALSE]
    /\ concurrency = [q \in Queues |-> IF q = "q1" THEN 2 ELSE 1]
    /\ deployed = {"A"}
    /\ injected = Capabilities
    /\ defs = [d \in Defs |-> NoDef]
    /\ InitScheduler
    /\ InitRegistry
    /\ circuitConfig = DefaultConfig

NextPrio ==
    \/ \E i \in Instances : Start(i)
    \/ \E i \in Instances : TimerTick(i)
    \/ \E i \in Instances, c \in Slots : StepFindQueues(i, c)
    \/ \E i \in Instances, c \in Slots : StepFindJobs(i, c)
    \/ \E i \in Instances, c \in Slots : StepMarkActive(i, c)
    \/ \E i \in Instances, c \in Slots : StepExecuteOk(i, c)
    \/ \E i \in Instances, c \in Slots : StepExecuteThrow(i, c)
    \/ \E i \in Instances, c \in Slots : StepMarkCompleted(i, c)
    \/ \E i \in Instances, c \in Slots : StepMarkFailed(i, c)
    \/ \E i \in Instances, c \in Slots : StepPromote(i, c)
    \/ \E j \in Jobs, q \in Queues, p \in Priorities :
          EnqueueOver(j, q, "cleanup-old-audit-logs", p)

\* the timer keeps firing and every awaited store call and handler returns
FairPrio ==
    /\ WF_vars(\E i \in Instances : Start(i))
    /\ WF_vars(\E i \in Instances : TimerTick(i))
    /\ WF_vars(CycleStep)

SpecPrio == InitPrio /\ [][NextPrio]_vars /\ FairPrio

\* one scheduler instance and an operator who pauses and resumes the queues
\* while jobs wait in them
InitPause ==
    /\ \E qf \in [Jobs -> Queues] :
          jobs = [j \in Jobs |-> [NoJob EXCEPT !.status = "pending", !.createdAt = j,
                                               !.queueId = qf[j], !.maxAttempts = 2]]
    /\ isPaused \in [Queues -> BOOLEAN]
    /\ concurrency = [q \in Queues |-> IF q = "q1" THEN 2 ELSE 1]
    /\ deployed = {"A"}
    /\ injected = Capabilities
    /\ defs = [d \in Defs |-> NoDef]
    /\ InitScheduler
    /\ InitRegistry
    /\ circuitConfig = DefaultConfig

NextPause ==
    \/ \E i \in Instances : Start(i)
    \/ \E i \in Instances : TimerTick(i)
    \/ \E i \in Instances, c \in Slots : StepFindQueues(i, c)
    \/ \E i \in Instances, c \in Slots : StepFindJobs(i, c)
    \/ \E i \in Instances, c \in Slots : StepMarkActive(i, c)
    \/ \E i \in Instances, c \in Slots : StepExecuteOk(i, c)
    \/ \E i \in Instances, c \in Slots : StepExecuteThrow(i, c)
    \/ \E i \in Instances, c \in Slots : StepMarkCompleted(i, c)
    \/ \E i \in Instances, c \in Slots : StepMarkFailed(i, c)
    \/ \E i \in Instances, c \in Slots : StepPromote(i, c)
    \/ \E q \in Queues : Pause(q)
    \/ \E q \in Queues : Resume(q)
    \/ AdvanceTime

SpecPause == InitPause /\ [][NextPause]_vars

\* ================================================================ claims
ActiveCount(q) ==
    Cardinality({j \in Jobs : jobs[j].status = "active" /\ jobs[j].queueId = q})

Holding(j, pcs) ==
    {x \in Instances \X Slots : cyc[x].pc \in pcs /\ Head(cyc[x].batch) = j}

EverSucceeded(j) == \E n \in 1..Len(outcomes[j]) : outcomes[j][n] = "S"

\* C1: in every reachable state, with one or several scheduler instances on
\* one Job Store, every queue has at most `concurrency` active jobs.
C1_ActiveWithinConcurrency ==
    \A q \in Queues : ActiveCount(q) <= concurrency[q]

\* C2: with two instances on one Job Store no job is claimed by both: a
\* cycle runs the handler of a job only after it has itself taken the claim
\* (pending -> active) of that dispatch.
C2_OnlyClaimantExecutes ==
    \A x \in Instances \X Slots : cyc[x].pc = "execute" => cyc[x].won

ScenarioA(j) ==
    /\ jobs[j].maxAttempts = 3
    /\ outcomes[j] = <<"F", "F", "F">>
    /\ Holding(j, {"markFailed"}) = {}

\* C4: a job with maxAttempts = 3 whose handler fails on every dispatch
\* eventually is failed (unless a producer cancels it first), with
\* attempts = 3 and lastError set once the third failure is recorded; and a
\* failed job is never claimed, executed or changed again by any processing
\* cycle or promotion.
C4_FailedForGood ==
    /\ \A j \in Jobs :
          (jobs[j].maxAttempts = 3 /\ jobs[j].status \in {"pending", "delayed", "active"})
              ~> (jobs[j].status \in {"failed", "cancelled"} \/ EverSucceeded(j))
    /\ [](\A j \in Jobs : ScenarioA(j) =>
              /\ jobs[j].status = "failed"
              /\ jobs[j].attempts = 3
              /\ jobs[j].lastError # "null")
    /\ [][\A j \in Jobs : jobs[j].status = "failed" =>
              /\ jobs'[j] = jobs[j]
              /\ outcomes'[j] = outcomes[j]
              /\ Holding(j, {"execute"})' = {}]_vars

C4_Witness ==
    \E j \in Jobs :
        /\ ScenarioA(j)
        /\ jobs[j].status = "failed"
        /\ \E i \in Instances : Busy(i) # {}

\* the handler of a job with maxAttempts = 3 has failed twice and returned
\* on the third dispatch
ScenarioB(j) ==
    /\ jobs[j].maxAttempts = 3
    /\ outcomes[j] = <<"F", "F", "S">>

\* C5: a job with maxAttempts = 3 whose handler failed on its first two
\* dispatches and returned on the third ends completed with attempts = 3 and
\* the output of the third execution as its result.
C5_ThirdAttemptCompletes ==
    /\ \A j \in Jobs :
          ScenarioB(j) ~> (/\ jobs[j].status = "completed"
                           /\ jobs[j].attempts = 3
                           /\ jobs[j].result = Result(3, "done"))
    /\ [](\A j \in Jobs : (ScenarioB(j) /\ Holding(j, {"markCompleted"}) = {}) =>
              /\ jobs[j].status = "completed"
              /\ jobs[j].attempts = 3
              /\ jobs[j].result = Result(3, "done"))

C5_Witness ==
    \E j \in Jobs : ScenarioB(j) /\ jobs[j].status = "completed"

DefinedEdges ==
    {<<"pending", "active">>, <<"active", "completed">>, <<"active", "failed">>,
     <<"pending", "delayed">>, <<"delayed", "pending">>,
     <<"pending", "cancelled">>, <<"active", "cancelled">>, <<"delayed", "cancelled">>}

\* C6: every change of a job's status follows pending -> active,
\* active -> completed, active -> failed, pending <-> delayed or
\* non-terminal -> cancelled; in particular a job never leaves completed or
\* failed.
C6_DefinedEdgesOnly ==
    [][\A j \in Jobs :
          (jobs[j].status # "none" /\ jobs'[j].status # jobs[j].status)
              => <<jobs[j].status, jobs'[j].status>> \in DefinedEdges]_vars

\* C7: within one scheduler instance at most one processing cycle is in
\* progress; a processJobs call (timer tick or the initial run of start())
\* made while a cycle is running returns without touching the Job Store or
\* the running cycle, and a cycle begins only in a call that found no cycle
\* running.
C7_OneCycleAtATime ==
    /\ [](\A i \in Instances :
              /\ Cardinality(Busy(i)) <= 1
              /\ isRunning[i] <=> Busy(i) # {})
    /\ [][\A i \in Instances :
              /\ (lastTick'[i] = "skipped" /\ lastTick[i] # "skipped")
                    => /\ Busy(i) # {}
                       /\ UNCHANGED <<jobs, isPaused, concurrency, cyc, isRunning>>
              /\ (Busy(i)' # Busy(i) /\ Busy(i)' # {})
                    => Busy(i) = {} /\ lastTick'[i] = "ran"]_vars

C7_Witness ==
    /\ lastTick["A"] = "skipped"
    /\ ~timerOn["A"]
    /\ \E j \in Jobs : Holding(j, {"execute"}) # {}

\* C8: when a job's handler throws, the cycle goes on: recording the
\* failure touches no other job, the cycle continues with the next job of
\* the batch, else the next queue, else delayed promotion, exactly as after
\* a success, and a cycle ends only through delayed promotion.
C8_FailureIsolated ==
    [][\A x \in Instances \X Slots :
          LET s == cyc[x] IN
          /\ (s.pc = "markFailed" /\ cyc'[x] # s) =>
                /\ \A k \in Jobs \ {Head(s.batch)} : jobs'[k] = jobs[k]
                /\ isRunning'[x[1]]
                /\ IF Len(s.batch) > 1
                   THEN /\ cyc'[x].pc = "markActive"
                        /\ cyc'[x].batch = Tail(s.batch)
                        /\ cyc'[x].qs = s.qs
                   ELSE IF Len(s.qs) > 1
                        THEN cyc'[x].pc = "findJobs" /\ cyc'[x].qs = Tail(s.qs)
                        ELSE cyc'[x].pc = "promote"
          /\ (s.pc # "idle" /\ cyc'[x].pc = "idle") => s.pc = "promote"]_vars

C8_Witness ==
    \E x \in Instances \X Slots, j \in Jobs :
        /\ cyc[x].pc = "markCompleted"
        /\ Head(cyc[x].batch) # j
        /\ jobs[j].queueId = jobs[Head(cyc[x].batch)].queueId
        /\ jobs[j].status = "delayed"
        /\ jobs[j].delayUntil = Some(now + Backoff(jobs[j].attempts))
        /\ outcomes[j] = <<"F">>

\* C9: the recordFailure call that brings the failure counter of a closed
\* circuit to failureThreshold opens it with nextRetryTime = now + cooldown;
\* from a fresh registration, failureThreshold (5) recordFailure calls in a
\* row leave the circuit open and fewer leave it closed.
C9_TripsAtThreshold ==
    /\ [](\A n \in Services :
              /\ (streak[n] >= 0 /\ streak[n] < circuitConfig.failureThreshold)
                    => circuitBreakers[n].state = "closed"
              /\ streak[n] >= circuitConfig.failureThreshold
                    => circuitBreakers[n].state = "open")
    /\ [][\A n \in Services :
              (/\ circuitBreakers[n].state = "closed"
               /\ op'.name = "recordFailure" /\ op'.svc = n
               /\ circuitBreakers'[n].failures = circuitBreakers[n].failures + 1)
              => IF circuitBreakers'[n].failures = circuitConfig.failureThreshold
                 THEN /\ circuitBreakers'[n].state = "open"
                      /\ circuitBreakers'[n].nextRetryTime = Some(now + circuitConfig.timeout)
                 ELSE circuitBreakers'[n].state = "closed"]_vars

C9_Witness ==
    \E n \in Services :
        /\ circuitConfig.failureThreshold = 5
        /\ streak[n] = 5
        /\ circuitBreakers[n].state = "open"
        /\ circuitBreakers[n].nextRetryTime = Some(now + CircuitTimeout)

\* C10: a getServiceUrl call on an open circuit returns no URL and leaves
\* the circuit open while now < nextRetryTime, and moves the circuit to
\* half_open once now >= nextRetryTime.
C10_OpenFastFails ==
    [][\A n \in Services :
          LET c == circuitBreakers[n] IN
          (/\ c.state = "open"
           /\ op' # op /\ op'.name = "getServiceUrl" /\ op'.svc = n)
          => /\ c.nextRetryTime # None
             /\ IF now < c.nextRetryTime[1]
                THEN op'.ret = "null" /\ circuitBreakers'[n] = c
                ELSE circuitBreakers'[n].state = "half_open"]_vars

C10_Witness ==
    \E n \in Services :
        /\ op.name = "getServiceUrl" /\ op.svc = n /\ op.ret = "url"
        /\ circuitBreakers[n].state = "half_open"

\* C11: a recordFailure call on a half_open circuit opens it at once with
\* nextRetryTime = time of the call + cooldown, whatever the failure counter
\* says.
C11_HalfOpenRetrips ==
    [][\A n \in Services :
          (/\ circuitBreakers[n].state = "half_open"
           /\ op' # op /\ op'.name = "recordFailure" /\ op'.svc = n)
          => /\ circuitBreakers'[n].state = "open"
             /\ circuitBreakers'[n].nextRetryTime = Some(now + circuitConfig.timeout)]_vars

C11_Witness ==
    \E n \in Services :
        /\ op.name = "recordFailure" /\ op.svc = n /\ op.was = "half_open"
        /\ circuitBreakers[n].state = "open"
        /\ circuitBreakers[n].failures = 1
        /\ circuitBreakers[n].nextRetryTime = Some(now + circuitConfig.timeout)

\* C12: a recordSuccess call closes a half_open circuit exactly when it is
\* the successThreshold-th recordSuccess since the circuit became half_open
\* with no recordFailure in between, and the circuit closes with both
\* counters at zero.
C12_ClosesAfterThreshold ==
    [][\A n \in Services :
          (/\ circuitBreakers[n].state = "half_open"
           /\ op' # op /\ op'.name = "recordSuccess" /\ op'.svc = n)
          => /\ circuitBreakers'[n].state = "closed"
                    <=> tally'[n].half = circuitConfig.successThreshold
             /\ circuitBreakers'[n].state = "closed"
                    => /\ circuitBreakers'[n].failures = 0
                       /\ circuitBreakers'[n].successes = 0]_vars

\* C13: a recordSuccess call on an open circuit whose cooldown has not
\* elapsed leaves the circuit (state, failures, successes, nextRetryTime) as
\* it was.
C13_SuccessWhileOpenIgnored ==
    [][\A n \in Services :
          (/\ circuitBreakers[n].state = "open"
           /\ ~RetryDue(circuitBreakers[n])
           /\ op' # op /\ op'.name = "recordSuccess" /\ op'.svc = n)
          => circuitBreakers'[n] = circuitBreakers[n]]_vars

\* C14: once the cooldown of an open circuit has elapsed, the next signal
\* for the dependency (a probe outcome or a caller's call) makes the circuit
\* half_open, also when only the health-check loop is running.
C14_SignalAfterCooldown ==
    [][\A n \in Services :
          (/\ circuitBreakers[n].state = "open"
           /\ RetryDue(circuitBreakers[n])
           /\ op' # op /\ op'.svc = n
           /\ op'.name \in {"recordSuccess", "recordFailure", "getServiceUrl"})
          => circuitBreakers'[n].state = "half_open"]_vars

\* C15: with failureThreshold = 3, three recordFailure calls on a freshly
\* registered service leave its circuit open and getServiceUrl returns no
\* URL while the cooldown runs; once successThreshold recordSuccess calls in
\* a row have been made after the cooldown elapsed, getServiceUrl returns
\* the URL.
C15_ScenarioC ==
    /\ [](\A n \in Services :
              (circuitConfig.failureThreshold = 3 /\ streak[n] >= 3)
                  => circuitBreakers[n].state = "open")
    /\ [][\A n \in Services :
              (/\ circuitConfig.failureThreshold = 3
               /\ op' # op /\ op'.name = "getServiceUrl" /\ op'.svc = n)
              => /\ (streak[n] >= 3 /\ ~RetryDue(circuitBreakers[n]))
                        => op'.ret = "null"
                 /\ tally[n].cool >= circuitConfig.successThreshold
                        => op'.ret = "url"]_vars

C15_Witness ==
    \E n \in Services :
        /\ circuitConfig.failureThreshold = 3
        /\ op.name = "getServiceUrl" /\ op.svc = n /\ op.ret = "url"
        /\ op.was = "open"
        /\ tally[n].cool = circuitConfig.successThreshold
        /\ circuitBreakers[n].successes = circuitConfig.successThreshold

\* C16: the promotion step of a processing cycle makes every job that is
\* delayed with delayUntil <= now pending with delayUntil cleared and leaves
\* every other job as it is; every cycle ends with that step.
C16_PromotesDueOnly ==
    [][\A x \in Instances \X Slots :
          /\ (cyc[x].pc = "promote" /\ cyc'[x].pc = "idle") =>
                \A j \in Jobs :
                    IF jobs[j].status = "delayed" /\ jobs[j].delayUntil # None
                       /\ jobs[j].delayUntil[1] <= now
                    THEN /\ jobs'[j].status = "pending"
                         /\ jobs'[j].delayUntil = None
                         /\ [jobs'[j] EXCEPT !.status = "delayed",
                                             !.delayUntil = jobs[j].delayUntil] = jobs[j]
                    ELSE jobs'[j] = jobs[j]
          /\ (cyc[x].pc # "idle" /\ cyc'[x].pc = "idle") => cyc[x].pc = "promote"]_vars

C16_Witness ==
    \E j, k \in Jobs :
        /\ jobs[j].status = "pending" /\ jobs[j].attempts = 1
        /\ jobs[j].delayUntil = None
        /\ jobs[k].status = "delayed" /\ jobs[k].delayUntil # None
        /\ jobs[k].delayUntil[1] > now
        /\ \A i \in Instances : Busy(i) = {}

\* C17: a job whose name is none of executeJob's cases is executed at most
\* once, its handler never throws, it is never retried (delayed) or failed,
\* and once its completion is recorded it is completed with the result of
\* its first dispatch, marked skipped.
C17_UnknownTypeSkipped ==
    \A j \in Jobs :
        jobs[j].name \notin Handlers =>
            /\ outcomes[j] \in {<<>>, <<"S">>}
            /\ jobs[j].status \notin {"delayed", "failed"}
            /\ (outcomes[j] = <<"S">> /\ Holding(j, {"markCompleted"}) = {})
                  => /\ jobs[j].status = "completed"
                     /\ jobs[j].attempts = 1
                     /\ jobs[j].result = Result(1, "skipped")

C17_Witness ==
    \E j \in Jobs :
        /\ jobs[j].name = "no-such-job"
        /\ jobs[j].status = "completed"
        /\ jobs[j].result = Result(1, "skipped")
        /\ \A i \in Instances : Busy(i) = {}

\* C18: a job whose type is backed by an optional service that the
\* deployment does not provide is executed at most once, its handler never
\* throws, it is never delayed or failed, and once its completion is
\* recorded it is completed with the mock-mode result of its first dispatch.
C18_AbsentCapabilityMocks ==
    \A j \in Jobs :
        (Capability(jobs[j].name) # "none" /\ Capability(jobs[j].name) \notin injected) =>
            /\ outcomes[j] \in {<<>>, <<"S">>}
            /\ jobs[j].status \notin {"delayed", "failed"}
            /\ (outcomes[j] = <<"S">> /\ Holding(j, {"markCompleted"}) = {})
                  => /\ jobs[j].status = "completed"
                     /\ jobs[j].attempts = 1
                     /\ jobs[j].result = Result(1, "mock")

C18_Witness ==
    \E j, k \in Jobs :
        /\ jobs[j].name = "send-email" /\ "EmailService" \notin injected
        /\ jobs[j].status = "completed"
        /\ jobs[j].result = Result(1, "mock")
        /\ jobs[k].name = "deliver-webhook" /\ "WebhooksService" \in injected
        /\ jobs[k].status = "delayed"

\* C19: a Job Store error ends at most the running cycle: when the error
\* ends the cycle the re-entrancy flag is released (the flag is set exactly
\* while a cycle is in progress) and the timer is left as it is, and the
\* next processJobs call after it starts a new cycle.
C19_StoreErrorEndsCycleOnly ==
    /\ [](\A i \in Instances : isRunning[i] <=> Busy(i) # {})
    /\ [][\A i \in Instances :
              /\ (lastTick'[i] = "error" /\ lastTick[i] # "error")
                    => /\ Busy(i)' = {}
                       /\ ~isRunning'[i]
                       /\ timerOn'[i] = timerOn[i]
              /\ (lastTick[i] = "error" /\ lastTick'[i] # "error")
                    => /\ lastTick'[i] = "ran"
                       /\ Busy(i)' # {}]_vars

C19_Witness ==
    \E j \in Jobs :
        /\ lastTick["A"] = "ran"
        /\ jobs[j].status = "active"
        /\ Holding(j, {"execute", "markCompleted", "markFailed"}) = {}
        /\ Busy("A") # {}

\* C20: a job that is cancelled stays cancelled and is not executed, also
\* by a cycle that read it into its batch while it was still pending.
C20_CancelledStaysCancelled ==
    [][\A j \in Jobs :
          jobs[j].status = "cancelled"
              => /\ jobs'[j].status = "cancelled"
                 /\ outcomes'[j] = outcomes[j]]_vars

\* C21: a definition cycle creates exactly one job for each enabled
\* definition that is due, with that definition's job type, sets lastRunAt
\* and recomputes nextRunAt of each of them from its own period, and leaves
\* the other definitions alone; two definitions due together give two jobs.
C21_OneJobPerDueDefinition ==
    [][LET created == {j \in Jobs : jobs[j].status = "none" /\ jobs'[j].status # "none"}
       IN  created # {} =>
             /\ Cardinality(created) = Cardinality(DueDefs)
             /\ \A d \in DueDefs :
                   /\ Cardinality({j \in created : jobs'[j].name = defs[d].name}) = 1
                   /\ defs'[d].lastRunAt = Some(now)
                   /\ defs'[d].nextRunAt = Some(now + defs[d].every)
             /\ \A j, k \in created : j # k => jobs'[j].createdAt # jobs'[k].createdAt
             /\ \A d \in Defs \ DueDefs : defs'[d] = defs[d]]_vars

C21_Witness ==
    /\ \A d \in Defs : defs[d].lastRunAt = Some(now)
    /\ defs["d1"].nextRunAt = Some(now + 1)
    /\ defs["d2"].nextRunAt = Some(now + 2)
    /\ jobs[1].name = "send-email" /\ jobs[1].status = "pending"
    /\ jobs[2].name = "deliver-webhook" /\ jobs[2].status = "pending"

Outranks(a, b) ==
    \/ jobs[a].priority > jobs[b].priority
    \/ jobs[a].priority = jobs[b].priority /\ jobs[a].createdAt < jobs[b].createdAt

\* C22: the selection of a cycle for a queue holds at most `concurrency`
\* jobs, all pending in that queue, ordered by priority descending then
\* creation time ascending, and every pending job of the queue it leaves out
\* is outranked by every job it holds; the cycle claims the jobs in that
\* order, one after the other.
C22_PriorityOrder ==
    /\ [](\A x \in Instances \X Slots :
              \A m, n \in 1..Len(cyc[x].batch) :
                  m < n => Outranks(cyc[x].batch[m], cyc[x].batch[n]))
    /\ [][\A x \in Instances \X Slots :
              (cyc[x].pc = "findJobs" /\ cyc'[x].pc = "markActive") =>
                  LET q == Head(cyc[x].qs)
                      b == cyc'[x].batch
                      P == {j \in Jobs : jobs[j].queueId = q /\ jobs[j].status = "pending"}
                  IN  /\ Len(b) <= concurrency[q]
                      /\ \A m \in 1..Len(b) : b[m] \in P
                      /\ \A k \in P :
                            \/ \E m \in 1..Len(b) : b[m] = k
                            \/ /\ Len(b) = concurrency[q]
                               /\ \A m \in 1..Len(b) : Outranks(b[m], k)]_vars
    /\ [][\A j \in Jobs :
              (jobs[j].status = "pending" /\ jobs'[j].status = "active") =>
                  \E x \in Instances \X Slots :
                      /\ cyc[x].pc = "markActive" /\ cyc'[x].pc = "execute"
                      /\ Head(cyc[x].batch) = j]_vars

C22_Witness ==
    \E x \in Instances \X Slots :
        /\ cyc[x].pc = "execute"
        /\ cyc[x].batch = <<2, 1>>
        /\ jobs[2].priority > jobs[1].priority
        /\ jobs[2].createdAt > jobs[1].createdAt
        /\ jobs[1].status = "pending"

HigherPending(j) ==
    \E k \in Jobs :
        /\ jobs[k].status = "pending"
        /\ jobs[k].queueId = jobs[j].queueId
        /\ jobs[k].priority > jobs[j].priority

\* C23: every job that is pending in a non-paused queue is eventually
\* claimed, provided cycles keep being triggered and handlers terminate,
\* whatever else is enqueued into its queue.
C23_NoStarvation ==
    \A j \in Jobs :
        (jobs[j].status = "pending" /\ ~isPaused[jobs[j].queueId])
            ~> (jobs[j].status # "pending")

\* C23, as the code has it: a job that is pending in a non-paused queue is
\* eventually claimed unless a job of higher priority is pending in its
\* queue; jobs of its own or a lower priority that keep arriving do not
\* hold it back.
C23_StarvedByHigherPriorityOnly ==
    \A j \in Jobs :
        (jobs[j].status = "pending" /\ ~isPaused[jobs[j].queueId])
            ~> (jobs[j].status # "pending" \/ HigherPending(j))

C23_Witness ==
    \E j, k \in Jobs :
        /\ jobs[j].status = "active"
        /\ jobs[j].queueId = "q2" /\ jobs[k].queueId = "q2"
        /\ jobs[k].status = "pending"
        /\ jobs[k].priority = jobs[j].priority
        /\ jobs[k].createdAt > jobs[j].createdAt
        /\ jobs[j].createdAt = 1 /\ j = 2

\* C24: no job is claimed (pending to active) and no handler is started for
\* a job while the queue of the job is paused; the jobs of a paused queue
\* stay pending
C24_NoWorkWhilePaused ==
    [][\A j \in Jobs :
          /\ (jobs[j].status = "pending" /\ jobs'[j].status = "active")
                => ~isPaused[jobs[j].queueId]
          /\ Len(outcomes'[j]) > Len(outcomes[j])
                => ~isPaused[jobs[j].queueId]
          /\ (isPaused[jobs[j].queueId] /\ jobs[j].status = "pending")
                => jobs'[j].status = "pending"]_vars

\* C25: in a health-probe cycle every registered dependency gets exactly
\* one outcome recorded, those after a failing or silent dependency
\* included, and the cycle terminates
C25_OneOutcomePerDependency ==
    /\ [](\A n \in Services :
             probe.recorded[n] =
                IF probe.cycles = 0 \/ \E k \in 1..Len(probe.todo) : probe.todo[k] = n
                THEN 0 ELSE 1)
    /\ (probe.running ~> ~probe.running)

C25_Witness ==
    /\ probe.cycles = 1
    /\ ~probe.running
    /\ \A n \in Services : probe.recorded[n] = 1
    /\ services["controls"].status = "degraded"
    /\ op.name = "recordSuccess" /\ op.svc = "audit"
    /\ services["audit"].status = "healthy"

\* C26: the reported status agrees with the circuit: a dependency whose
\* circuit is open has status unhealthy in getService, and getHealthSummary
\* counts it as unhealthy and not as healthy
C26_OpenIsUnhealthy ==
    LET open == {n \in Services : circuitBreakers[n].state = "open"} IN
    /\ \A n \in open : GetService(n).status = "unhealthy"
    /\ GetHealthSummary.unhealthy >= Cardinality(open)
    /\ GetHealthSummary.healthy <= Cardinality(Services \ open)

\* C27: a job whose handler has returned is not executed again and does
\* not become delayed, failed or pending, even when the store update that
\* records the completion fails
C27_NoRerunAfterSuccess ==
    \A j \in Jobs :
       \A n \in 1..Len(outcomes[j]) :
          outcomes[j][n] = "S"
             => /\ n = Len(outcomes[j])
                /\ jobs[j].status \notin {"delayed", "failed", "pending"}

\* C28: every job that becomes active eventually leaves active, also when
\* the cycle that claimed it was ended by a store error: a later cycle
\* finalizes the job or dispatches it again
C28_ActiveEventuallyLeaves ==
    \A j \in Jobs : (jobs[j].status = "active") ~> (jobs[j].status # "active")

\* C29: on a closed circuit recordSuccess sets the failure counter to zero
\* and leaves the circuit closed; the counter of a closed circuit is the
\* number of failures recorded since the last success, and a closed circuit
\* opens only at the failureThreshold-th of these
C29_SuccessResetsFailures ==
    /\ [](\A n \in Services :
              circuitBreakers[n].state = "closed"
                 => /\ circuitBreakers[n].failures = tally[n].fails
                    /\ tally[n].fails < circuitConfig.failureThreshold)
    /\ [][\A n \in Services :
              /\ (/\ circuitBreakers[n].state = "closed"
                  /\ op' # op /\ op'.name = "recordSuccess" /\ op'.svc = n)
                    => /\ circuitBreakers'[n].failures = 0
                       /\ circuitBreakers'[n].state = "closed"
              /\ (circuitBreakers[n].state = "closed" /\ circuitBreakers'[n].state = "open")
                    => /\ op'.name = "recordFailure" /\ op'.svc = n
                       /\ tally'[n].fails = circuitConfig.failureThreshold]_vars

C29_Witness ==
    \E n \in Services :
        /\ circuitBreakers[n].state = "closed"
        /\ circuitBreakers[n].nextRetryTime # None
        /\ op.name = "recordFailure" /\ op.svc = n
        /\ tally[n].fails = circuitConfig.failureThreshold - 1

\* the calls of fn made so far that failed
Failures == {k \in 1..Len(retry.log) : retry.log[k].kind = "throw"}

\* C30: retryAsync calls fn at most maxRetries + 1 times; the first call
\* that succeeds is the last call and its value is returned; after failed
\* attempt a (0-based) it waits min(baseDelayMs * 2^a, maxDelayMs), and not
\* after the last attempt; when all maxRetries + 1 calls have failed it
\* throws an error with code RETRY_EXHAUSTED and the last failure's message
C30_RetryAsync ==
    /\ Len(retry.log) <= retry.maxRetries + 1
    /\ \A k \in 1..Len(retry.log) :
          retry.log[k].kind = "return"
             => /\ k = Len(retry.log)
                /\ retry.pc = "returned"
                /\ retry.out.kind = "return"
                /\ retry.out.value = retry.log[k].value
    /\ retry.pc = "returned" => Len(retry.log) = Cardinality(Failures) + 1
    /\ Len(retry.waits) = Min(Cardinality(Failures), retry.maxRetries)
    /\ \A a \in 1..Len(retry.waits) :
          retry.waits[a] =
             IF retry.baseDelayMs * 2^(a - 1) < retry.maxDelayMs
             THEN retry.baseDelayMs * 2^(a - 1) ELSE retry.maxDelayMs
    /\ retry.pc = "wait" => Len(retry.waits) = Len(retry.log)
    /\ retry.pc = "thrown" <=>
          (retry.pc # "idle" /\ Cardinality(Failures) = retry.maxRetries + 1)
    /\ retry.pc = "thrown"
          => LET last == retry.log[Len(retry.log)].value IN
             /\ retry.out.kind = "throw"
             /\ retry.out.code = "RETRY_EXHAUSTED"
             /\ retry.out.message = IF last.type = "other"
                                    THEN "An unknown error occurred"
                                    ELSE last.message

C30_Witness ==
    /\ retry.pc = "thrown"
    /\ retry.maxRetries = 2
    /\ Len(retry.log) = 3
    /\ retry.waits = <<100, 150>>
    /\ retry.log[3].value.type = "Error"
    /\ retry.out.message = "timeout"

====
